---- MODULE Spec2Model ----
(***************************************************************************)
(* Model of src/app.py: the MCPServer registry (tools, resources,          *)
(* capabilities), its four handlers and the Flask routes that dispatch to  *)
(* them.  Python dicts are ordered association lists, JSON values are      *)
(* tagged records, strings are built as the f-strings build them, and a    *)
(* Python exception is an outcome record (raised, msg) that travels up to  *)
(* the nearest try/except.                                                 *)
(***************************************************************************)
EXTENDS Integers, Sequences, FiniteSets, TLC

VARIABLES mcp_server, request, response, invoked, fault, initLog

vars == <<mcp_server, request, response, invoked, fault, initLog>>

(***************************** bounds **************************************)
\* JSON numbers tried as calculator operands: -MaxOperand..MaxOperand.
MaxOperand == 2
\* Values datetime.now() / time.time() may return: 0..MaxClock.
MaxClock == 1
\* Values uuid.uuid4() may return: 1..MaxUuid.
MaxUuid == 2
\* Initialize calls recorded in initLog.
MaxInits == 2

(***************************** JSON values *********************************)
\* A JSON number is n * 10^(308 * e): an integer n (e = 0), or the number
\* 1e308 (n = 1, e = 1), which is near the largest double.
JNum(n) == [t |-> "num", s |-> "", n |-> n, e |-> 0]
JHuge == [t |-> "num", s |-> "", n |-> 1, e |-> 1]
JStr(s) == [t |-> "str", s |-> s, n |-> 0, e |-> 0]
JNull == [t |-> "null", s |-> "", n |-> 0, e |-> 0]
JList == [t |-> "list", s |-> "", n |-> 0, e |-> 0]
JObj == [t |-> "obj", s |-> "", n |-> 0, e |-> 0]

\* str(x) of a JSON value, as an f-string interpolates it.
PyStr(v) ==
    CASE v.t = "str" -> v.s
      [] v.t = "num" -> IF v.e = 0 THEN ToString(v.n) ELSE "1e+308"
      [] v.t = "null" -> "None"
      [] v.t = "list" -> "[]"
      [] OTHER -> "{}"

\* type(x).__name__ of a JSON value.
PyTypeName(v) ==
    CASE v.t = "str" -> "str"
      [] v.t = "num" -> IF v.e = 0 THEN "int" ELSE "float"
      [] v.t = "null" -> "NoneType"
      [] v.t = "list" -> "list"
      [] OTHER -> "dict"

\* hash(x) succeeds: lists and dicts are unhashable.
Hashable(v) == v.t \in {"str", "num", "null"}

(***************************** Python dict *********************************)
\* A dict is the sequence of its items [k, v] in insertion order.
DictKeys(d) == [i \in 1..Len(d) |-> d[i].k]
DictKeySet(d) == {d[i].k : i \in 1..Len(d)}
DictHas(d, k) == \E i \in 1..Len(d) : d[i].k = k
DictGet(d, k) == d[CHOOSE i \in 1..Len(d) : d[i].k = k].v
\* d[k] = v: replaces the value in place, or appends a new item.
DictSet(d, k, v) ==
    IF DictHas(d, k)
    THEN [i \in 1..Len(d) |-> IF d[i].k = k THEN [k |-> k, v |-> v] ELSE d[i]]
    ELSE Append(d, [k |-> k, v |-> v])

\* A JSON object received in a request: a function from its keys to JSON
\* values; params.get(key, default).
Get(params, key, default) ==
    IF key \in DOMAIN params THEN params[key] ELSE default

\* The value of a request field: absent, or a JSON value; a JSON object
\* carries its members in d.
Absent == [kind |-> "absent", d |-> <<>>]
NullArg == [kind |-> "null", d |-> <<>>]
ListArg == [kind |-> "list", d |-> <<>>]
DictArg(d) == [kind |-> "dict", d |-> d]

(***************************** outcomes ************************************)
\* What a block of Python code ends in: a returned value or a raised
\* exception with its str().
Return(v) == [raised |-> FALSE, msg |-> "", value |-> v]
Raise(m) == [raised |-> TRUE, msg |-> m, value |-> <<>>]

(***************************** float ***************************************)
Abs(n) == IF n < 0 THEN -n ELSE n
Sign(n) == IF n < 0 THEN -1 ELSE 1

RECURSIVE Gcd(_, _)
Gcd(a, b) == IF b = 0 THEN a ELSE Gcd(b, a % b)

RECURSIVE IntPow(_, _)
IntPow(a, n) == IF n = 0 THEN 1 ELSE a * IntPow(a, n - 1)

\* A float: the finite value (num / den) * 10^(308 * e) with den > 0 in
\* lowest terms and e in -1..1, a zero with its sign, an infinity (num its
\* sign), or the irrational square root of such a value.
Zero(neg) == [k |-> "fin", num |-> 0, den |-> 1, e |-> 0, neg |-> neg]
Fin(n, d, e) ==
    LET g == Gcd(Abs(n), d)
    IN  IF n = 0 THEN Zero(FALSE)
        ELSE [k |-> "fin", num |-> n \div g, den |-> d \div g, e |-> e,
              neg |-> n < 0]
Inf(sign) == [k |-> "inf", num |-> sign, den |-> 1, e |-> 0, neg |-> sign < 0]
Irr(n, e) == [k |-> "irr", num |-> n, den |-> 1, e |-> e, neg |-> FALSE]

IsZero(x) == x.num = 0

\* The mantissa num / den at e = 1 is beyond the largest double
\* (1.797...e308): IEEE arithmetic rounds the result to an infinity.
Overflows(n, d, e) == e > 1 \/ (e = 1 /\ 10 * Abs(n) >= 18 * d)

\* The rounded result of an exact operation: a value below the smallest
\* double is 0.0, one beyond the largest is an infinity.
Rounded(n, d, e) ==
    IF n = 0 \/ e < -1 THEN Fin(0, 1, 0)
    ELSE IF Overflows(n, d, e) THEN Inf(Sign(n))
    ELSE Fin(n, d, e)

\* a + b: an operand 10^308 times smaller than the other is absorbed.
FloatAdd(a, b) ==
    IF IsZero(a) /\ IsZero(b) THEN Zero(a.neg /\ b.neg)
    ELSE IF IsZero(a) THEN b
    ELSE IF IsZero(b) THEN a
    ELSE IF a.e > b.e THEN a
    ELSE IF b.e > a.e THEN b
    ELSE Rounded(a.num * b.den + b.num * a.den, a.den * b.den, a.e)

FloatNeg(a) == [a EXCEPT !.num = -@, !.neg = ~@]

\* a * b: a zero product has the sign of the product.
FloatMul(a, b) ==
    IF IsZero(a) \/ IsZero(b) THEN Zero(a.neg # b.neg)
    ELSE Rounded(a.num * b.num, a.den * b.den, a.e + b.e)

\* a / b for b # 0.
FloatDiv(a, b) ==
    IF IsZero(a) THEN Zero(a.neg # b.neg)
    ELSE Rounded(a.num * b.den * Sign(b.num), a.den * Abs(b.num),
                 a.e - b.e)

\* str(x) of a float: "5.0", "inf", "1e+308"; a value that is no integer is
\* written as its exact value.
FloatStr(x) ==
    LET mant == IF x.den = 1 THEN ToString(x.num)
                ELSE ToString(x.num) \o "/" \o ToString(x.den)
        exp == CASE x.e = 1 -> "e+308" [] x.e = -1 -> "e-308"
                 [] OTHER -> IF x.den = 1 THEN ".0" ELSE ""
    IN  CASE x.k = "inf" -> IF x.num < 0 THEN "-inf" ELSE "inf"
          [] x.num = 0 -> IF x.neg THEN "-0.0" ELSE "0.0"
          [] x.k = "irr" -> "sqrt(" \o mant \o exp \o ")"
          [] OTHER -> mant \o exp

\* float(v): the number, or TypeError / ValueError.
PyFloat(v) ==
    CASE v.t = "num" -> Return(Fin(v.n, 1, v.e))
      [] v.t = "str" ->
            Raise("could not convert string to float: '" \o v.s \o "'")
      [] OTHER ->
            Raise("float() argument must be a string or a real number, not '"
                  \o PyTypeName(v) \o "'")

\* Variant of FloatPow that follows IEEE pow: 0 to a negative power is inf.
FloatPow_ieee(a, b) ==
    IF IsZero(b) THEN Return(Fin(1, 1, 0))
    ELSE IF IsZero(a) /\ b.num < 0 THEN Return(Inf(1))
    ELSE IF IsZero(a) THEN Return(Fin(0, 1, 0))
    ELSE IF b.e = 1
    THEN IF a.e = 0 /\ Abs(a.num) = 1 THEN Return(Fin(1, 1, 0))
         ELSE Raise("(34, 'Numerical result out of range')")
    ELSE IF a.e = 1
    THEN IF b.num = 1 THEN Return(a)
         ELSE IF b.num > 1 THEN Raise("(34, 'Numerical result out of range')")
         ELSE IF b.num = -1 THEN Return(Fin(1, 1, -1))
         ELSE Return(Fin(0, 1, 0))
    ELSE IF b.num > 0 THEN Return(Fin(IntPow(a.num, b.num), 1, 0))
    ELSE LET p == IntPow(a.num, -b.num)
         IN  Return(Fin(Sign(p), Abs(p), 0))

\* a ** b on floats, for a an integer or 1e308 and b an integer or 1e308:
\* ZeroDivisionError for 0.0 to a negative power, OverflowError when the
\* result is beyond the largest double, 0.0 when it is below the smallest.
FloatPow(a, b) ==
    IF IsZero(b) THEN Return(Fin(1, 1, 0))
    ELSE IF IsZero(a) /\ b.num < 0
    THEN Raise("0.0 cannot be raised to a negative power")
    ELSE IF IsZero(a) THEN Return(Fin(0, 1, 0))
    ELSE IF b.e = 1
    THEN IF a.e = 0 /\ Abs(a.num) = 1 THEN Return(Fin(1, 1, 0))
         ELSE Raise("(34, 'Numerical result out of range')")
    ELSE IF a.e = 1
    THEN IF b.num = 1 THEN Return(a)
         ELSE IF b.num > 1 THEN Raise("(34, 'Numerical result out of range')")
         ELSE IF b.num = -1 THEN Return(Fin(1, 1, -1))
         ELSE Return(Fin(0, 1, 0))
    ELSE IF b.num > 0 THEN Return(Fin(IntPow(a.num, b.num), 1, 0))
    ELSE LET p == IntPow(a.num, -b.num)
         IN  Return(Fin(Sign(p), Abs(p), 0))

\* math.sqrt(a) for a >= 0, a an integer or 1e308.
FloatSqrt(a) ==
    IF a.e = 0 /\ \E r \in 0..a.num : r * r = a.num
    THEN Fin(CHOOSE r \in 0..a.num : r * r = a.num, 1, 0)
    ELSE Irr(a.num, a.e)

(***************************** schemas **************************************)
\* A tool definition: its name, its description and the key its parameter
\* schema is stored under.
ToolSchema(name, description, schemaKey) ==
    [name |-> name, description |-> description, schemaKey |-> schemaKey]

ResourceSchema(uri, name, description, mimeType) ==
    [uri |-> uri, name |-> name, description |-> description,
     mimeType |-> mimeType]

ServerInfoUri == "mcp://server/info"

(***************************** MCPServer ***********************************)
\* The attributes __init__ assigns before it registers anything; there is
\* no sessions attribute.
EmptyServer ==
    [tools |-> <<>>, resources |-> <<>>,
     capabilities |-> [tools |-> <<>>, resources |-> <<>>]]

HasAttr(s, attr) == attr \in DOMAIN s

register_tool(s, name, schema, handler) ==
    [s EXCEPT !.tools = DictSet(@, name,
                                [schema |-> schema, handler |-> handler]),
              !.capabilities.tools = DictSet(@, name, schema)]

\* Variant of register_resource that leaves the capabilities alone.
register_resource_nocap(s, name, schema, handler) ==
    [s EXCEPT !.resources = DictSet(@, name,
                                    [schema |-> schema, handler |-> handler])]

register_resource(s, name, schema, handler) ==
    [s EXCEPT !.resources = DictSet(@, name,
                                    [schema |-> schema, handler |-> handler]),
              !.capabilities.resources = DictSet(@, name, schema)]

\* The first definition of _register_default_tools in the class body.
_register_default_tools_1(s) ==
    LET s1 == register_tool(s, "calculator",
                  ToolSchema("calculator",
                             "Perform mathematical calculations",
                             "parameters"),
                  "_calculator_handler")
        s2 == register_tool(s1, "get_current_time",
                  ToolSchema("get_current_time",
                             "Get current date and time", "parameters"),
                  "_time_handler")
    IN  register_tool(s2, "weather_info",
            ToolSchema("weather_info",
                       "Get weather information for a city", "parameters"),
            "_weather_handler")

\* The second definition of _register_default_tools in the class body.
_register_default_tools_2(s) ==
    LET s1 == register_tool(s, "calculator",
                  ToolSchema("calculator",
                             "Perform mathematical calculations",
                             "inputSchema"),
                  "_calculator_handler")
        s2 == register_tool(s1, "get_current_time",
                  ToolSchema("get_current_time",
                             "Get the current date and time", "inputSchema"),
                  "_time_handler")
    IN  register_tool(s2, "weather_info",
            ToolSchema("weather_info",
                       "Get weather information for a city", "inputSchema"),
            "_weather_handler")

\* self._register_default_tools: a class body binds a name to its last
\* definition, so the second one is the method.
_register_default_tools(s) == _register_default_tools_2(s)

_register_default_resources(s) ==
    register_resource(s, "server_info",
        ResourceSchema(ServerInfoUri, "Server Information",
                       "Information about this MCP server",
                       "application/json"),
        "_server_info_handler")

\* MCPServer(): __init__ registers the default tools and nothing else.
MCPServer_init == _register_default_tools(EmptyServer)

(***************************** handlers ************************************)
\* params.get on something that is no dict.
NoGet(params) ==
    Raise("'" \o (IF params.kind = "null" THEN "NoneType" ELSE "list")
          \o "' object has no attribute 'get'")

Content(text) ==
    [content |-> <<[type |-> "text", text |-> text]>>, isError |-> FALSE]

Error(msg) == [error |-> msg]

\* Variant of DefaultOperand: a missing operand counts as 1.
DefaultOperand_one == JNum(1)

\* The default of params.get("a", 0) and params.get("b", 0).
DefaultOperand == JNum(0)

\* The try block of _calculator_handler.
_calculator_try(params) ==
    IF params.kind # "dict" THEN NoGet(params)
    ELSE
    LET operation == Get(params.d, "operation", JNull)
        fa == PyFloat(Get(params.d, "a", DefaultOperand))
        fb == PyFloat(Get(params.d, "b", DefaultOperand))
        a == fa.value
        b == fb.value
        Result(x) == Return(Content("Result: " \o FloatStr(x)))
    IN  IF fa.raised THEN Raise(fa.msg)
        ELSE IF fb.raised THEN Raise(fb.msg)
        ELSE IF operation = JStr("add") THEN Result(FloatAdd(a, b))
        ELSE IF operation = JStr("subtract")
        THEN Result(FloatAdd(a, FloatNeg(b)))
        ELSE IF operation = JStr("multiply") THEN Result(FloatMul(a, b))
        ELSE IF operation = JStr("divide")
        THEN IF IsZero(b)
             THEN Return(Error("Division by zero is not allowed"))
             ELSE Result(FloatDiv(a, b))
        ELSE IF operation = JStr("power")
        THEN LET p == FloatPow(a, b)
             IN  IF p.raised THEN Raise(p.msg) ELSE Result(p.value)
        ELSE IF operation = JStr("sqrt")
        THEN IF a.num < 0
             THEN Return(Error(
                      "Square root of negative number is not allowed"))
             ELSE Result(FloatSqrt(a))
        ELSE Return(Error("Unknown operation: " \o PyStr(operation)))

\* The try block of _time_handler.
_time_try(params, now) ==
    IF params.kind # "dict" THEN NoGet(params)
    ELSE LET timezone == Get(params.d, "timezone", JStr("UTC"))
         IN  Return(Content("Current time (" \o PyStr(timezone) \o "): "
                            \o ToString(now)))

\* bool(x) of a JSON value.
Truthy(v) ==
    CASE v.t = "str" -> v.s # ""
      [] v.t = "num" -> v.n # 0
      [] OTHER -> FALSE

\* The try block of _weather_handler.
_weather_try(params) ==
    IF params.kind # "dict" THEN NoGet(params)
    ELSE LET city == Get(params.d, "city", JStr("Unknown"))
             country == Get(params.d, "country", JStr(""))
             location == IF Truthy(country)
                         THEN PyStr(city) \o ", " \o PyStr(country)
                         ELSE PyStr(city)
         IN  Return(Content("Weather in " \o location \o ":\n"
                            \o "Temperature: 22°C\n"
                            \o "Condition: Partly cloudy\n"
                            \o "Humidity: 65%\n"
                            \o "Wind: 10 km/h"))

\* except Exception as e: return {"error": str(e)}
Caught(o) == IF o.raised THEN Return(Error(o.msg)) ELSE o

\* Variant of _calculator_handler without its except clause.
_calculator_handler_nocatch(params) == _calculator_try(params)

_calculator_handler(params) == Caught(_calculator_try(params))

_time_handler(params, now) == Caught(_time_try(params, now))

_weather_handler(params) == Caught(_weather_try(params))

\* json.dumps of a list of strings.
RECURSIVE JsonList(_)
JsonList(q) ==
    IF q = <<>> THEN ""
    ELSE "\"" \o Head(q) \o "\""
         \o (IF Len(q) = 1 THEN "" ELSE ", " \o JsonList(Tail(q)))

\* json.dumps(server_info): the capabilities member is the list of the
\* keys of capabilities["tools"].
ServerInfoJson(names, now) ==
    "{\"name\": \"Flask MCP Server\", \"version\": \"1.0.0\", "
    \o "\"description\": \"A Flask-based Model Context Protocol server\", "
    \o "\"capabilities\": [" \o JsonList(names) \o "], "
    \o "\"uptime\": " \o ToString(now) \o ", "
    \o "\"timestamp\": \"" \o ToString(now) \o "\"}"

_server_info_handler(s, params, now) ==
    Return([contents |-> <<[uri |-> ServerInfoUri,
                            mimeType |-> "application/json",
                            text |-> ServerInfoJson(
                                DictKeys(s.capabilities.tools), now)]>>])

\* handler(arguments): the bound method a registry entry holds.
Call(handler, s, params, now) ==
    CASE handler = "_calculator_handler" -> _calculator_handler(params)
      [] handler = "_time_handler" -> _time_handler(params, now)
      [] handler = "_weather_handler" -> _weather_handler(params)
      [] OTHER -> _server_info_handler(s, params, now)

\* What the handler's own try block ended in (the exception its except
\* clause sees, if any).
Try(handler, params, now) ==
    CASE handler = "_calculator_handler" -> _calculator_try(params)
      [] handler = "_time_handler" -> _time_try(params, now)
      [] handler = "_weather_handler" -> _weather_try(params)
      [] OTHER -> Return(<<>>)

(***************************** requests ************************************)
\* A top-level member of the request body: absent, or a JSON value.
NoField == [present |-> FALSE, v |-> JNull]
Field(v) == [present |-> TRUE, v |-> v]

\* data.get(key): None when the member is absent.
FieldGet(f) == IF f.present THEN f.v ELSE JNull

EmptyDict == [k \in {} |-> JNull]

\* One request: the route, what request.get_json() returns (a JSON object
\* with the members below, or a JSON list), and what the clock and uuid4
\* return while it is handled.
Req(op, body, name, arguments, uri, now, uuid) ==
    [op |-> op, body |-> body, name |-> name, arguments |-> arguments,
     uri |-> uri, now |-> now, uuid |-> uuid]

NoFault == [raised |-> FALSE, msg |-> ""]

\* What a route does: the HTTP status and JSON body it returns, the
\* handlers it invoked, what the invoked handler's try block ended in, and
\* the server object afterwards.
Resp(status, body, inv, flt, s) ==
    [status |-> status, body |-> body, invoked |-> inv, fault |-> flt,
     server |-> s]

\* data.get(...) when get_json() returned a list.
BodyFault == "'list' object has no attribute 'get'"

(***************************** routes **************************************)
health_check(s, data) ==
    Resp(200, [status |-> "healthy", timestamp |-> ToString(data.now)],
         <<>>, NoFault, s)

\* Variant of initialize that keeps the session in the capabilities mapping.
initialize_in_capabilities(s, data) ==
    LET session_id == ToString(data.uuid)
        caps == [k \in DOMAIN s.capabilities \cup {"sessions"} |->
                    IF k \in DOMAIN s.capabilities THEN s.capabilities[k]
                    ELSE <<[k |-> session_id,
                            v |-> [created |-> ToString(data.now)]]>>]
        s2 == [s EXCEPT !.capabilities = caps]
    IN  Resp(200,
             [protocolVersion |-> "2024-11-05",
              capabilities |-> s2.capabilities,
              serverInfo |-> [name |-> "Flask MCP Server",
                              version |-> "1.0.0"],
              sessionId |-> session_id],
             <<>>, NoFault, s2)

initialize(s, data) ==
    IF data.body # "object" THEN Resp(500, Error(BodyFault), <<>>, NoFault, s)
    ELSE IF ~HasAttr(s, "sessions")
    THEN Resp(500,
              Error("'MCPServer' object has no attribute 'sessions'"),
              <<>>, NoFault, s)
    ELSE LET session_id == ToString(data.uuid)
             s2 == [s EXCEPT !.sessions = DictSet(@, session_id,
                        [created |-> ToString(data.now)])]
         IN  Resp(200,
                  [protocolVersion |-> "2024-11-05",
                   capabilities |-> s2.capabilities,
                   serverInfo |-> [name |-> "Flask MCP Server",
                                   version |-> "1.0.0"],
                   sessionId |-> session_id],
                  <<>>, NoFault, s2)

\* Variant of list_tools that builds the list back to front.
list_tools_reversed(s, data) ==
    Resp(200,
         [tools |-> [i \in 1..Len(s.tools) |->
                        s.tools[Len(s.tools) + 1 - i].v.schema]],
         <<>>, NoFault, s)

list_tools(s, data) ==
    Resp(200, [tools |-> [i \in 1..Len(s.tools) |-> s.tools[i].v.schema]],
         <<>>, NoFault, s)

\* Variant of tool_not_found that forgets the 404 status.
tool_not_found_200(s, tool_name) ==
    Resp(200, Error("Tool '" \o PyStr(tool_name) \o "' not found"),
         <<>>, NoFault, s)

\* jsonify({"error": f"Tool '{tool_name}' not found"}), 404
tool_not_found(s, tool_name) ==
    Resp(404, Error("Tool '" \o PyStr(tool_name) \o "' not found"),
         <<>>, NoFault, s)

call_tool(s, data) ==
    IF data.body # "object" THEN Resp(500, Error(BodyFault), <<>>, NoFault, s)
    ELSE
    LET tool_name == FieldGet(data.name)
        arguments == IF data.arguments.kind = "absent"
                     THEN DictArg(EmptyDict) ELSE data.arguments
    IN  IF ~Hashable(tool_name)
        THEN Resp(500,
                  Error("unhashable type: '" \o PyTypeName(tool_name) \o "'"),
                  <<>>, NoFault, s)
        ELSE IF ~(tool_name.t = "str" /\ DictHas(s.tools, tool_name.s))
        THEN tool_not_found(s, tool_name)
        ELSE LET handler == DictGet(s.tools, tool_name.s).handler
                 result == Call(handler, s, arguments, data.now)
                 t == Try(handler, arguments, data.now)
                 flt == [raised |-> t.raised, msg |-> t.msg]
             IN  IF result.raised
                 THEN Resp(500, Error(result.msg), <<handler>>, flt, s)
                 ELSE Resp(200, result.value, <<handler>>, flt, s)

list_resources(s, data) ==
    Resp(200,
         [resources |->
             [i \in 1..Len(s.resources) |-> s.resources[i].v.schema]],
         <<>>, NoFault, s)

read_resource(s, data) ==
    IF data.body # "object" THEN Resp(500, Error(BodyFault), <<>>, NoFault, s)
    ELSE
    LET uri == FieldGet(data.uri)
        Match(i) == uri.t = "str" /\ s.resources[i].v.schema.uri = uri.s
        hits == {i \in 1..Len(s.resources) : Match(i)}
    IN  IF hits = {}
        THEN Resp(404,
                  Error("Resource with URI '" \o PyStr(uri) \o "' not found"),
                  <<>>, NoFault, s)
        ELSE LET first == CHOOSE i \in hits : \A j \in hits : i <= j
                 resource_handler == s.resources[first].v.handler
                 result == Call(resource_handler, s, DictArg(EmptyDict),
                                data.now)
             IN  IF result.raised
                 THEN Resp(500, Error(result.msg), <<resource_handler>>,
                           NoFault, s)
                 ELSE Resp(200, result.value, <<resource_handler>>,
                           NoFault, s)

ping(s, data) ==
    Resp(200, [pong |-> TRUE, timestamp |-> ToString(data.now)],
         <<>>, NoFault, s)

(***************************** inputs **************************************)
Clock == 0..MaxClock
Uuids == 1..MaxUuid

OperationNames ==
    {"add", "subtract", "multiply", "divide", "power", "sqrt"}

Numbers == {JNum(n) : n \in -MaxOperand..MaxOperand} \cup {JHuge}
Operands == Numbers \cup {JStr("abc"), JNull}
Operations == {JStr(o) : o \in OperationNames \cup {"mod"}}

CalcKeys == {"operation", "a", "b"}

\* Every calculator arguments object over the keys operation, a, b, each
\* present or absent.
CalcDicts ==
    UNION {{d \in [K -> Operands \cup Operations] :
               \A k \in K : d[k] \in (IF k = "operation" THEN Operations
                                      ELSE Operands)} :
           K \in SUBSET CalcKeys}

OtherArgs ==
    {Absent, NullArg, ListArg, DictArg(EmptyDict),
     DictArg([timezone |-> JStr("PST")]),
     DictArg([city |-> JStr("Paris")]),
     DictArg([city |-> JStr("Tokyo"), country |-> JStr("JP")])}

ToolNameFields ==
    {NoField, Field(JNull), Field(JNum(1)), Field(JList), Field(JObj)}
    \cup {Field(JStr(n)) :
             n \in {"calculator", "get_current_time", "weather_info",
                    "nosuch"}}

UriFields ==
    {NoField, Field(JNull), Field(JStr(ServerInfoUri)),
     Field(JStr("mcp://server/other"))}

Bodies == {"object", "list"}

CallToolRequests ==
    {Req("call_tool", "object", n, a, NoField, t, 0) :
        n \in ToolNameFields, a \in OtherArgs, t \in Clock}
    \cup {Req("call_tool", "object", Field(JStr("calculator")),
              DictArg(d), NoField, 0, 0) : d \in CalcDicts}
    \cup {Req("call_tool", "list", NoField, Absent, NoField, 0, 0)}

ReadResourceRequests ==
    {Req("read_resource", b, NoField, Absent, u, t, 0) :
        b \in Bodies, u \in UriFields, t \in Clock}

InitializeRequests ==
    {Req("initialize", "object", NoField, Absent, NoField, t, u) :
        t \in Clock, u \in Uuids}

PlainRequests(op) ==
    {Req(op, "object", NoField, Absent, NoField, t, 0) : t \in Clock}

(***************************** actions *************************************)
NoRequest == Req("none", "object", NoField, Absent, NoField, 0, 0)
NoResponse == [status |-> 0, body |-> EmptyDict]

Init ==
    /\ mcp_server = MCPServer_init
    /\ request = NoRequest
    /\ response = NoResponse
    /\ invoked = <<>>
    /\ fault = NoFault
    /\ initLog = <<>>

\* The server handles the request data and answers r.
Handle(data, r) ==
    /\ request' = data
    /\ response' = [status |-> r.status, body |-> r.body]
    /\ invoked' = r.invoked
    /\ fault' = r.fault
    /\ mcp_server' = r.server

Health ==
    \E data \in PlainRequests("health") :
        Handle(data, health_check(mcp_server, data)) /\ UNCHANGED initLog

Initialize ==
    /\ Len(initLog) < MaxInits
    /\ \E data \in InitializeRequests :
          LET r == initialize(mcp_server, data)
          IN  /\ Handle(data, r)
              /\ initLog' = Append(initLog,
                     [status |-> r.status,
                      sessionId |-> IF "sessionId" \in DOMAIN r.body
                                    THEN r.body.sessionId ELSE ""])

ListTools ==
    \E data \in PlainRequests("list_tools") :
        Handle(data, list_tools(mcp_server, data)) /\ UNCHANGED initLog

CallTool ==
    \E data \in CallToolRequests :
        Handle(data, call_tool(mcp_server, data)) /\ UNCHANGED initLog

ListResources ==
    \E data \in PlainRequests("list_resources") :
        Handle(data, list_resources(mcp_server, data)) /\ UNCHANGED initLog

ReadResource ==
    \E data \in ReadResourceRequests :
        Handle(data, read_resource(mcp_server, data)) /\ UNCHANGED initLog

Ping ==
    \E data \in PlainRequests("ping") :
        Handle(data, ping(mcp_server, data)) /\ UNCHANGED initLog

Next ==
    \/ Health
    \/ Initialize
    \/ ListTools
    \/ CallTool
    \/ ListResources
    \/ ReadResource
    \/ Ping

Spec == Init /\ [][Next]_vars

(***************************** registration ********************************)
\* The registry under arbitrary register_tool / register_resource calls,
\* starting from the empty registry __init__ creates.
RegNames == {"calculator", "extra"}
RegHandlers == {"_calculator_handler", "_time_handler"}
RegToolSchemas ==
    {ToolSchema(n, "d", "inputSchema") : n \in RegNames}
RegResourceSchemas ==
    {ResourceSchema(u, "n", "d", "application/json") :
        u \in {ServerInfoUri, "mcp://server/other"}}

InitReg ==
    /\ mcp_server = EmptyServer
    /\ request = NoRequest
    /\ response = NoResponse
    /\ invoked = <<>>
    /\ fault = NoFault
    /\ initLog = <<>>

RegisterTool ==
    \E name \in RegNames, schema \in RegToolSchemas, handler \in RegHandlers :
        /\ mcp_server' = register_tool(mcp_server, name, schema, handler)
        /\ request' = Req("register_tool", "object", Field(JStr(name)),
                          Absent, NoField, 0, 0)
        /\ UNCHANGED <<response, invoked, fault, initLog>>

RegisterResource ==
    \E name \in RegNames, schema \in RegResourceSchemas,
       handler \in RegHandlers :
        /\ mcp_server' = register_resource(mcp_server, name, schema, handler)
        /\ request' = Req("register_resource", "object", Field(JStr(name)),
                          Absent, NoField, 0, 0)
        /\ UNCHANGED <<response, invoked, fault, initLog>>

NextReg ==
    \/ RegisterTool
    \/ RegisterResource

SpecReg == InitReg /\ [][NextReg]_vars

(***************************** properties **********************************)
IsCall == request.op = "call_tool" /\ request.body = "object"
ReqName == FieldGet(request.name)
Registered(name) ==
    name.t = "str" /\ name.s \in DictKeySet(mcp_server.tools)
IsError(msg) ==
    DOMAIN response.body = {"error"} /\ response.body.error = msg
NotFound(name) ==
    /\ response.status = 404
    /\ IsError("Tool '" \o PyStr(name) \o "' not found")

\* C1 as stated: a call-tool request whose name is not a registry key
\* (absent included) gets the 404 not-found failure and invokes no handler;
\* a request whose name is registered never gets a 404.
C1_UnregisteredAlways404 ==
    IsCall =>
        IF Registered(ReqName) THEN response.status # 404
        ELSE NotFound(ReqName) /\ invoked = <<>>

\* C1 amended: with a JSON-object body, a name that is absent, null or an
\* unregistered scalar gets the 404 not-found failure; a name that is a
\* JSON array or object gets a 500 "unhashable type"; neither invokes a
\* handler; a registered name never gets a 404.
C1_UnregisteredHashable404 ==
    IsCall =>
        IF Registered(ReqName) THEN response.status # 404
        ELSE IF Hashable(ReqName) THEN NotFound(ReqName) /\ invoked = <<>>
        ELSE /\ response.status = 500
             /\ IsError("unhashable type: '" \o PyTypeName(ReqName) \o "'")
             /\ invoked = <<>>

C1_Witness ==
    /\ IsCall
    /\ request.name = Field(JStr("nosuch"))
    /\ response.status = 404

\* C2 as stated: once two initialize calls were made on the server as
\* constructed, both succeeded with a sessionId, the two identifiers differ
\* and both are keys of the session map.
C2_TwoInitializeSessions ==
    Len(initLog) >= 2 =>
        /\ initLog[1].status = 200
        /\ initLog[2].status = 200
        /\ initLog[1].sessionId # initLog[2].sessionId
        /\ HasAttr(mcp_server, "sessions")
        /\ DictHas(mcp_server.sessions, initLog[1].sessionId)
        /\ DictHas(mcp_server.sessions, initLog[2].sessionId)

\* C3 as stated: reading mcp://server/info succeeds and the JSON text has
\* as capabilities the list of all registered tool names.
C3_ServerInfoReadable ==
    (/\ request.op = "read_resource"
     /\ request.body = "object"
     /\ request.uri = Field(JStr(ServerInfoUri)))
    => /\ response.status = 200
       /\ DOMAIN response.body = {"contents"}
       /\ response.body.contents[1].text =
              ServerInfoJson(DictKeys(mcp_server.tools), request.now)

\* C4 as stated: every result a tool handler returns carries isError, a
\* boolean.
C4_IsErrorAlwaysPresent ==
    IsCall /\ invoked # <<>> =>
        /\ "isError" \in DOMAIN response.body
        /\ response.body.isError \in BOOLEAN

\* The calculator call of the current request, operands numeric or absent.
IsCalc ==
    /\ IsCall
    /\ ReqName = JStr("calculator")
    /\ request.arguments.kind = "dict"
NumericOperands ==
    \A k \in {"a", "b"} \cap DOMAIN request.arguments.d :
        request.arguments.d[k].t = "num"
ArgOp == Get(request.arguments.d, "operation", JNull)
ArgA == Get(request.arguments.d, "a", JNum(0))
ArgB == Get(request.arguments.d, "b", JNum(0))

\* a ** b is beyond the largest double, for a, b integers or 1e308.
PowerTooLarge(a, b) ==
    /\ a.n # 0
    /\ \/ b.e = 1 /\ (a.e = 1 \/ Abs(a.n) > 1)
       \/ a.e = 1 /\ b.e = 0 /\ b.n > 1

\* Every text "Result: <value>" of a float value.
ResultTexts ==
    LET top == IntPow(MaxOperand, MaxOperand)
    IN  {"Result: " \o FloatStr(x) :
            x \in {Fin(n, d, e) : n \in -top..top, d \in 1..top,
                                  e \in -1..1}
                  \cup {Inf(1), Inf(-1), Zero(TRUE)}
                  \cup {Irr(n, e) : n \in 0..top, e \in 0..1}}

IsResult ==
    /\ response.status = 200
    /\ DOMAIN response.body = {"content", "isError"}
    /\ response.body.isError = FALSE
    /\ Len(response.body.content) = 1
    /\ response.body.content[1].type = "text"
    /\ response.body.content[1].text \in ResultTexts

CalcFailure(msg) == response.status = 200 /\ IsError(msg)

C6_HandlerFaultsAre200 ==
    IsCall /\ Registered(ReqName) =>
        /\ response.status = 200
        /\ fault.raised => IsError(fault.msg)

C6_Witness ==
    /\ IsCall
    /\ ReqName = JStr("calculator")
    /\ request.arguments.kind = "null"
    /\ fault.raised
    /\ response.status = 200

\* C7: list-tools returns one definition per registered tool, in
\* registration order (calculator, get_current_time, weather_info), each
\* with the name of the registry key it is stored under.
C7_ListToolsInOrder ==
    request.op = "list_tools" =>
        /\ response.status = 200
        /\ DOMAIN response.body = {"tools"}
        /\ Len(response.body.tools) = Len(mcp_server.tools)
        /\ \A i \in 1..Len(response.body.tools) :
              response.body.tools[i].name = mcp_server.tools[i].k
        /\ [i \in 1..Len(response.body.tools) |->
               response.body.tools[i].name]
           = <<"calculator", "get_current_time", "weather_info">>

C7_Witness ==
    /\ request.op = "list_tools"
    /\ Len(response.body.tools) = 3

\* C8: no request changes the tool registry, the resource registry or the
\* capabilities mapping: they stay as constructed.
C8_RegistryFrozen ==
    /\ mcp_server.tools = MCPServer_init.tools
    /\ mcp_server.resources = MCPServer_init.resources
    /\ mcp_server.capabilities = MCPServer_init.capabilities

C8_Witness ==
    /\ Len(initLog) = MaxInits
    /\ request.op = "call_tool"
    /\ response.status = 200

\* The arguments with each absent operand present and equal to 0.
ZeroFilled(d) ==
    [k \in DOMAIN d \cup {"a", "b"} |->
        IF k \in DOMAIN d THEN d[k] ELSE JNum(0)]

OperandAbsent == {"a", "b"} \ DOMAIN request.arguments.d # {}

\* C9: the calculator called with a or b absent answers as the call with
\* that operand present and equal to 0; divide with b absent is the
\* division-by-zero failure.
C9_AbsentOperandIsZero ==
    IsCalc /\ OperandAbsent =>
        LET filled == [request EXCEPT
                          !.arguments = DictArg(ZeroFilled(@.d))]
            r == call_tool(mcp_server, filled)
        IN  /\ response = [status |-> r.status, body |-> r.body]
            /\ (/\ ArgOp = JStr("divide")
                /\ "b" \notin DOMAIN request.arguments.d
                /\ Get(request.arguments.d, "a", JNum(0)).t = "num")
               => CalcFailure("Division by zero is not allowed")

C9_Witness ==
    /\ IsCalc
    /\ ArgOp = JStr("divide")
    /\ DOMAIN request.arguments.d = {"operation", "a"}
    /\ request.arguments.d["a"] = JNum(1)
    /\ IsError("Division by zero is not allowed")

\* C10: after any register_tool / register_resource calls the keys of
\* capabilities["tools"] are the keys of the tool registry with the same
\* schema under each key, likewise for resources, and every key has one
\* entry, with one handler.
OneEntryPerKey(d) ==
    \A i, j \in 1..Len(d) : d[i].k = d[j].k => i = j

C10_CapabilitiesMirrorRegistry ==
    /\ DictKeys(mcp_server.capabilities.tools) = DictKeys(mcp_server.tools)
    /\ DictKeys(mcp_server.capabilities.resources)
       = DictKeys(mcp_server.resources)
    /\ \A k \in DictKeySet(mcp_server.tools) :
          DictGet(mcp_server.capabilities.tools, k)
          = DictGet(mcp_server.tools, k).schema
    /\ \A k \in DictKeySet(mcp_server.resources) :
          DictGet(mcp_server.capabilities.resources, k)
          = DictGet(mcp_server.resources, k).schema
    /\ OneEntryPerKey(mcp_server.tools)
    /\ OneEntryPerKey(mcp_server.resources)
    /\ \A i \in 1..Len(mcp_server.tools) :
          DOMAIN mcp_server.tools[i].v = {"schema", "handler"}
    /\ \A i \in 1..Len(mcp_server.resources) :
          DOMAIN mcp_server.resources[i].v = {"schema", "handler"}

\* The name registered last is the first of two keys: it was re-registered.
C10_Witness ==
    /\ request.op = "register_tool"
    /\ Len(mcp_server.tools) = 2
    /\ mcp_server.tools[1].k = request.name.v.s
    /\ Len(mcp_server.resources) = 1

====
